---- MODULE Spec2Model ----
(***************************************************************************)
(* A model of chain.py (pinealan/toychain): the canonical hasher HASH, the *)
(* signed transaction Tx, Block / BlockHeader and the ledger Chain with    *)
(* its operations transact and addBlock.                                   *)
(*                                                                         *)
(* Representation of Python values                                         *)
(*   bytes / str : a run-length encoded sequence <<code, count>>, ... in    *)
(*                 normal form (no empty run, no two adjacent runs of the  *)
(*                 same code).  Two byte strings are equal iff their run   *)
(*                 sequences are equal, so the encoding is exact; it only  *)
(*                 keeps the 128-byte integers of HASH short.              *)
(*   None        : the run sequence <<<<0, 0>>>>, which is no byte string.  *)
(*   SHA-1       : collision free.  A hash object is the byte string fed   *)
(*                 to it; its digest is that string between the codes -1   *)
(*                 and -2, its hexdigest the same between -3 and -4.       *)
(*   RSA-PSS     : a signature is the signed data between -5 key salt and  *)
(*                 -6; only the private key of the pair can produce it.    *)
(***************************************************************************)
EXTENDS Integers, Sequences, FiniteSets, TLC

---------------------------------------------------------------------------
(* Bounds of the model *)

\* Chain.tx_limit is 10 in the source; the model seals after fewer
\* transactions so that several seals are reached.
tx_limit == 3
\* the largest amount a caller passes (amounts range over -1..MaxAmount)
MaxAmount == 1
\* the clock and the timestamps passed by callers range over 0..MaxTime
MaxTime == 1
\* the PSS salts range over 0..MaxSalt
MaxSalt == 1
\* calls per run of the deep specification and of the wide one
MaxCalls == 6
MaxCallsWide == 2
\* the strings and byte strings hashed as field values hold at most MaxLen
\* characters
MaxLen == 2
\* the threads that call transact concurrently, and the calls they make
\* in all
NThreads == 2
MaxCallsThreads == 4
\* calls per run of the specification of validateBlock
MaxCallsBlocks == 5

\* int.to_bytes(length=128, byteorder='big')
IntLength == 128

---------------------------------------------------------------------------
(* Python bytes and str values *)

None == <<<<0, 0>>>>

\* concatenation of two byte strings (h.update appends)
Cat(x, y) ==
    IF x = <<>> THEN y
    ELSE IF y = <<>> THEN x
    ELSE IF x[Len(x)][1] = y[1][1]
         THEN SubSeq(x, 1, Len(x) - 1)
                \o <<<<y[1][1], x[Len(x)][2] + y[1][2]>>>>
                \o Tail(y)
         ELSE x \o y

\* the byte string with the given list of codes
RECURSIVE FromList(_)
FromList(s) ==
    IF s = <<>> THEN <<>> ELSE Cat(<<<<Head(s), 1>>>>, FromList(Tail(s)))

\* the list of codes of a byte string
RECURSIVE ToList(_)
ToList(r) ==
    IF r = <<>> THEN <<>>
    ELSE IF r[1][2] = 1 THEN <<r[1][1]>> \o ToList(Tail(r))
    ELSE <<r[1][1]>> \o ToList(<<<<r[1][1], r[1][2] - 1>>>> \o Tail(r))

\* typed arguments of HASH
StrArg(r)   == [type |-> "str",   n |-> 0, runs |-> r]
IntArg(n)   == [type |-> "int",   n |-> n, runs |-> <<>>]
BytesArg(r) == [type |-> "bytes", n |-> 0, runs |-> r]

\* an address is a str; BytesValue(r) is the bytes object r given where an
\* address is expected
BytesValue(r) == <<<<-7, 0>>>> \o r
IsBytes(v) == v # <<>> /\ v[1] = <<-7, 0>>

\* an address as an argument of HASH
AddrArg(v) == IF IsBytes(v) THEN BytesArg(Tail(v)) ELSE StrArg(v)

\* n.to_bytes(length=128, byteorder='big') for 0 <= n < 256: 127 zero bytes
\* and the byte n (a negative n raises OverflowError, see ArgError)
ToBytes(n) ==
    IF n = 0 THEN <<<<0, IntLength>>>> ELSE <<<<0, IntLength - 1>>, <<n, 1>>>>

---------------------------------------------------------------------------
(* HASH *)

\* ArgError with integers converted by to_bytes(..., signed=True), which
\* accepts a negative integer
ArgError_Signed(arg) ==
    IF arg.type \in {"str", "int", "bytes"} THEN "" ELSE "TypeError"

\* what HASH raises on one argument ("" when it raises nothing)
ArgError(arg) ==
    IF arg.type = "str" THEN ""
    ELSE IF arg.type = "int"
         THEN (IF arg.n < 0 THEN "OverflowError" ELSE "")
    ELSE IF arg.type = "bytes" THEN ""
    ELSE "TypeError"

\* the bytes HASH feeds to the hash object for one argument
ArgBytes(arg) ==
    IF arg.type = "int" THEN ToBytes(arg.n) ELSE arg.runs

\* the loop of HASH over the arguments from position i on
RECURSIVE HashFrom(_, _, _)
HashFrom(h, args, i) ==
    IF i > Len(args) THEN [err |-> "", data |-> h]
    ELSE IF ArgError(args[i]) # "" THEN [err |-> ArgError(args[i]), data |-> h]
    ELSE HashFrom(Cat(h, ArgBytes(args[i])), args, i + 1)

\* HASH(*args): the hash object, or the error HASH raises
HASH(args) == HashFrom(<<>>, args, 1)

\* h.digest() and h.hexdigest() of a hash object fed the bytes h
digest(h)    == Cat(FromList(<<-1>>), Cat(h, FromList(<<-2>>)))
hexdigest(h) == Cat(FromList(<<-3>>), Cat(h, FromList(<<-4>>)))

\* tree_hash(x, y) for two typed arguments that HASH accepts
tree_hash(x, y) == hexdigest(HASH(<<x, y>>).data)

---------------------------------------------------------------------------
(* RSA keys and addresses *)

KeyIds == {"a", "b"}
KeyNum(id) == IF id = "a" THEN 1 ELSE 2

\* the private keys the callers hold, as in the demo's a.pem, b.pem
PrivateKey(id) == [id |-> id, private |-> TRUE]
\* key.publickey()
publickey(key) == [id |-> key.id, private |-> FALSE]

\* key.exportKey('DER'): one byte, 0xA0 + n for a private key, 0xB0 + n
\* for a public key
exportKey(key) ==
    FromList(<<(IF key.private THEN 160 ELSE 176) + KeyNum(key.id)>>)

\* bytes.hex(): two lower-case hexadecimal digits per byte
HexDigit(d) == IF d < 10 THEN 48 + d ELSE 87 + d
RECURSIVE HexList(_)
HexList(s) ==
    IF s = <<>> THEN <<>>
    ELSE <<HexDigit(Head(s) \div 16), HexDigit(Head(s) % 16)>> \o HexList(Tail(s))
hex(b) == FromList(HexList(ToList(b)))

\* the value of a hexadecimal digit of either case, -1 for any other character
HexValue(c) ==
    IF c \in 48..57 THEN c - 48
    ELSE IF c \in 97..102 THEN c - 87
    ELSE IF c \in 65..70 THEN c - 55
    ELSE -1

\* bytes.fromhex(s) on the list of characters of s: ok is FALSE where it
\* raises ValueError (the strings of the model hold no white space, which
\* fromhex would skip)
RECURSIVE FromHexList(_)
FromHexList(s) ==
    IF s = <<>> THEN [ok |-> TRUE, bytes |-> <<>>]
    ELSE IF Len(s) < 2 \/ HexValue(s[1]) < 0 \/ HexValue(s[2]) < 0
         THEN [ok |-> FALSE, bytes |-> <<>>]
    ELSE LET rest == FromHexList(SubSeq(s, 3, Len(s)))
         IN  [ok |-> rest.ok,
              bytes |-> <<16 * HexValue(s[1]) + HexValue(s[2])>> \o rest.bytes]

\* RSA.importKey(der) on a list of bytes: ok is FALSE where it raises
\* ValueError
importKey(der) ==
    IF Len(der) = 1 /\ \E id \in KeyIds : der[1] = 160 + KeyNum(id)
    THEN [ok |-> TRUE,
          key |-> PrivateKey(CHOOSE id \in KeyIds : der[1] = 160 + KeyNum(id))]
    ELSE IF Len(der) = 1 /\ \E id \in KeyIds : der[1] = 176 + KeyNum(id)
    THEN [ok |-> TRUE,
          key |-> publickey(PrivateKey(
                     CHOOSE id \in KeyIds : der[1] = 176 + KeyNum(id)))]
    ELSE [ok |-> FALSE, key |-> PrivateKey("a")]

key_to_public_hex(key)  == hex(exportKey(key))
key_to_private_hex(key) == hex(exportKey(publickey(key)))

\* public_hex_to_key(pub): ok is FALSE where it raises ValueError
public_hex_to_key(pub) ==
    LET b == FromHexList(ToList(pub))
    IN  IF b.ok THEN importKey(b.bytes) ELSE [ok |-> FALSE, key |-> PrivateKey("a")]

\* pss.new(key).sign(h) with the salt drawn by the signer
PssSign(key, h, salt) ==
    Cat(FromList(<<-5, KeyNum(key.id), salt>>), Cat(digest(h), FromList(<<-6>>)))

\* pss.new(key).verify(h, signature) does not raise ValueError
PssVerify(key, h, signature) ==
    \E salt \in 0..MaxSalt : signature = PssSign(key, h, salt)


---------------------------------------------------------------------------
(* Tx *)

\* what Tx.__init__ raises ("" when it raises nothing)
TxError(by, to, amount, msg) ==
    HASH(<<AddrArg(by), AddrArg(to), IntArg(amount), IntArg(msg)>>).err

\* Tx.__init__
Tx(by, to, amount, msg) ==
    [by        |-> by,
     to        |-> to,
     amount    |-> amount,
     msg       |-> msg,
     signature |-> None,
     prehash   |-> HASH(<<AddrArg(by), AddrArg(to), IntArg(amount), IntArg(msg)>>).data,
     hash      |-> None]

isSigned(tx) == tx.signature # None

\* what Tx.isValid raises ("" when it returns): bytes.fromhex raises
\* TypeError on an argument that is no str, and isValid catches ValueError
\* only
isValidError(tx) ==
    IF isSigned(tx) /\ IsBytes(tx.by) THEN "TypeError" ELSE ""

\* isValid without the verification of the signature
isValid_NoVerify(tx) ==
    IF ~isSigned(tx) THEN FALSE ELSE public_hex_to_key(tx.by).ok

\* Tx.isValid: the ValueError of bytes.fromhex, RSA.importKey and verify
\* is caught and gives False
isValid(tx) ==
    IF ~isSigned(tx) THEN FALSE
    ELSE LET k == public_hex_to_key(tx.by)
         IN  k.ok /\ PssVerify(k.key, tx.prehash, tx.signature)

\* Tx.sign with a private key
sign(tx, key, salt) ==
    LET signature == PssSign(key, tx.prehash, salt)
    IN  [tx EXCEPT !.signature = signature,
                   !.hash = HASH(<<AddrArg(tx.by), AddrArg(tx.to), IntArg(tx.amount),
                                   BytesArg(signature), IntArg(tx.msg)>>).data]

\* the property Tx.hash
TxHash(tx) == digest(tx.hash)

\* functools.reduce of hash_txs from the accumulator acc over txs[i..]
RECURSIVE ReduceTxs(_, _, _)
ReduceTxs(acc, txs, i) ==
    IF i > Len(txs) THEN acc
    ELSE ReduceTxs(StrArg(tree_hash(acc, BytesArg(TxHash(txs[i])))), txs, i + 1)

\* hash_txs folding from the right: hash(h0, hash(h1, ... hn))
RECURSIVE ReduceRight(_, _)
ReduceRight(txs, i) ==
    IF i = Len(txs) THEN BytesArg(TxHash(txs[i]))
    ELSE StrArg(tree_hash(BytesArg(TxHash(txs[i])), ReduceRight(txs, i + 1)))
hash_txs_Right(txs) == ReduceRight(txs, 1)

\* hash_txs(*txs) for a non-empty list (reduce raises TypeError on an
\* empty one)
hash_txs(txs) == ReduceTxs(BytesArg(TxHash(txs[1])), txs, 2)

---------------------------------------------------------------------------
(* BlockHeader and Block *)

BlockHeader(prevhash, roothash, timestamp, nouce) ==
    [prevhash  |-> prevhash,
     roothash  |-> roothash,
     timestamp |-> timestamp,
     nouce     |-> nouce,
     hash      |-> HASH(<<prevhash, roothash, IntArg(timestamp), IntArg(nouce)>>).data]

\* what Block.__init__ raises ("" when it raises nothing)
BlockError(prevhash, roothash, timestamp, nouce) ==
    HASH(<<prevhash, roothash, IntArg(timestamp), IntArg(nouce)>>).err

\* Block.__init__; transactions is the reference of the list the block
\* holds
Block(prevhash, roothash, timestamp, nouce, transactions) ==
    LET header == BlockHeader(prevhash, roothash, timestamp, nouce)
    IN  [header       |-> header,
         hash         |-> digest(header.hash),
         hexhash      |-> hexdigest(header.hash),
         transactions |-> transactions]

---------------------------------------------------------------------------
(* Chain *)

VARIABLES
    blocks,    \* Chain.blocks: the list of Block
    txs,       \* Chain.txs: the reference of the list of pending Tx
    addr,      \* Chain.addr: the balance of each address, or NoAddr
    heap,      \* the Python lists of Tx, by reference
    call,      \* the last call of transact or addBlock and how it ended
    accepted,  \* history: the Tx that transact admitted, in order
    manual,    \* history: the calls of addBlock by the caller that sealed
    ncalls,    \* history: the calls made so far
    held,      \* a Tx a caller holds outside the chain, and the last call on it
    hashed,    \* two field values and the digests HASH gave for them
    threads    \* the calls of transact in progress in concurrent threads

vars == <<blocks, txs, addr, heap, call, accepted, manual, ncalls,
          held, hashed, threads>>

\* what a specification leaves alone when it is about the chain alone
Detached == held = <<>> /\ hashed = <<>> /\ threads = <<>>

\* self.addr of a Chain constructed without addr (None)
NoAddr == (None :> 0)

\* the addresses of the demo: pub[i] = key_to_public_hex(key[i])
A == key_to_public_hex(PrivateKey("a"))
B == key_to_public_hex(PrivateKey("b"))
\* two more strings used as addresses: the hexadecimal form of the public
\* half of key a, and "D", which is no hexadecimal string
PubA == key_to_private_hex(PrivateKey("a"))
D == FromList(<<68>>)

\* the list a reference denotes
Deref(h, ref) == h[ref]

\* last_block returning the first block
last_block_First(bs) == bs[1]

\* Chain.last_block
last_block(bs) == bs[Len(bs)]

\* Chain.isValid
ChainIsValid == addr # NoAddr

\* validateTx with the comparison against the amount dropped
validateTx_NoAmount(balances, tx) ==
    IF isValidError(tx) # "" THEN isValidError(tx)
    ELSE IF ~isValid(tx) THEN "False"
    ELSE IF balances = NoAddr THEN "TypeError"
    ELSE IF tx.by \notin DOMAIN balances THEN "KeyError"
    ELSE IF balances[tx.by] >= 0 THEN "True"
    ELSE "False"

\* Chain.validateTx: "True", "False", or the error it raises
validateTx(balances, tx) ==
    IF isValidError(tx) # "" THEN isValidError(tx)
    ELSE IF ~isValid(tx) THEN "False"
    ELSE IF balances = NoAddr THEN "TypeError"
    ELSE IF tx.by \notin DOMAIN balances THEN "KeyError"
    ELSE IF balances[tx.by] >= tx.amount THEN "True"
    ELSE "False"

\* Transfer with the receiver's balance overwritten instead of increased
Transfer_Overwrite(balances, tx) ==
    (tx.to :> tx.amount) @@ [balances EXCEPT ![tx.by] = @ - tx.amount]

\* Transfer with the debit of the sender left out
Transfer_NoDebit(balances, tx) ==
    IF tx.to \in DOMAIN balances
    THEN [balances EXCEPT ![tx.to] = @ + tx.amount]
    ELSE (tx.to :> tx.amount) @@ balances

\* the try / except KeyError of Chain.transact for a validated tx
Transfer(balances, tx) ==
    LET debited == [balances EXCEPT ![tx.by] = @ - tx.amount]
    IN  IF tx.to \in DOMAIN debited
        THEN [debited EXCEPT ![tx.to] = @ + tx.amount]
        ELSE (tx.to :> tx.amount) @@ debited

\* Sealed without self.txs = []: the chain keeps appending to the list the
\* block holds
Sealed_KeepList(bs, ref, h, block) ==
    [err |-> "", blocks |-> Append(bs, block), txs |-> ref, heap |-> h]

\* Sealed with the pending list emptied in place (self.txs.clear())
Sealed_ClearList(bs, ref, h, block) ==
    [err |-> "", blocks |-> Append(bs, block), txs |-> ref,
     heap |-> [h EXCEPT ![ref] = <<>>]]

\* the end of Chain.addBlock: the block is appended and self.txs is bound
\* to a new empty list
Sealed(bs, ref, h, block) ==
    [err    |-> "",
     blocks |-> Append(bs, block),
     txs    |-> Len(h) + 1,
     heap   |-> Append(h, <<>>)]

\* addBlock with hash_txs folding from the initial value 0, so that an
\* empty list has a root hash
addBlock_AllowEmpty(bs, ref, h, timestamp) ==
    LET same == [err |-> "", blocks |-> bs, txs |-> ref, heap |-> h]
        build(prevhash, root_hash) ==
            IF BlockError(prevhash, root_hash, timestamp, 0) # ""
            THEN [same EXCEPT !.err = BlockError(prevhash, root_hash, timestamp, 0)]
            ELSE Sealed(bs, ref, h, Block(prevhash, root_hash, timestamp, 0, ref))
    IN  IF Deref(h, ref) = <<>>
        THEN build(StrArg(last_block(bs).hexhash), IntArg(0))
        ELSE build(StrArg(last_block(bs).hexhash), hash_txs(Deref(h, ref)))

\* Chain.addBlock(timestamp) on the chain <<bs, ref, h>>: the error it
\* raises ("" for none) and the chain it leaves
addBlock(bs, ref, h, timestamp) ==
    LET same == [err |-> "", blocks |-> bs, txs |-> ref, heap |-> h]
        build(prevhash, root_hash) ==
            IF BlockError(prevhash, root_hash, timestamp, 0) # ""
            THEN [same EXCEPT !.err = BlockError(prevhash, root_hash, timestamp, 0)]
            ELSE Sealed(bs, ref, h, Block(prevhash, root_hash, timestamp, 0, ref))
    IN  IF Deref(h, ref) = <<>> THEN [same EXCEPT !.err = "TypeError"]
        ELSE build(StrArg(last_block(bs).hexhash), hash_txs(Deref(h, ref)))

\* TxLimitReached with the limit missed by one
TxLimitReached_Above(pending) == Len(pending) > tx_limit

\* the test of Chain.transact that decides whether to seal
TxLimitReached(pending) == Len(pending) = tx_limit

\* the record of a call; timestamp is the timestamp passed to addBlock, or
\* the time transact read from the clock (0 when it did not read it)
Call(op, key, by, to, amount, timestamp, result) ==
    [op |-> op, key |-> key, by |-> by, to |-> to, amount |-> amount,
     timestamp |-> timestamp, result |-> result]

\* Chain.__init__(timestamp, addr)
ChainInit(timestamp, balances) ==
    /\ blocks   = <<Block(IntArg(0), IntArg(0), timestamp, 0, 1)>>
    /\ heap     = <<<<>>, <<>>>>
    /\ txs      = 2
    /\ addr     = balances
    /\ call     = Call("init", "", None, None, 0, timestamp, "ok")
    /\ accepted = <<>>
    /\ manual   = 0
    /\ ncalls   = 0

\* Chain.transact(key, to, amount, msg, by); salt is the salt PSS draws and
\* now the value of now_in_millisecond().  (The local operators take the
\* values the method computes once: tx, the result of validateTx, the list
\* after the append and the chain after addBlock.)
transact(key, to, amount, msg, by, salt, now) ==
    LET sender == IF by = None \/ by = <<>> THEN key_to_public_hex(key) ELSE by
        raise(e) ==
            /\ call' = Call("transact", key.id, by, to, amount, 0, e)
            /\ UNCHANGED <<blocks, txs, addr, heap, accepted, manual>>
        seal(sealed) ==
            /\ blocks' = sealed.blocks
            /\ txs' = sealed.txs
            /\ heap' = sealed.heap
            /\ call' = Call("transact", key.id, by, to, amount, now,
                            IF sealed.err = "" THEN "ok" ELSE sealed.err)
        append(tx, appended) ==
            /\ addr' = Transfer(addr, tx)
            /\ accepted' = Append(accepted, tx)
            /\ manual' = manual
            /\ IF TxLimitReached(Deref(appended, txs))
               THEN seal(addBlock(blocks, txs, appended, now))
               ELSE /\ blocks' = blocks
                    /\ txs' = txs
                    /\ heap' = appended
                    /\ call' = Call("transact", key.id, by, to, amount, 0, "ok")
        decide(tx, valid) ==
            IF valid = "False" THEN raise("ValueError")
            ELSE IF valid # "True" THEN raise(valid)
            ELSE append(tx, [heap EXCEPT ![txs] = Append(@, tx)])
        validate(tx) == decide(tx, validateTx(addr, tx))
    IN  /\ ncalls' = ncalls + 1
        /\ UNCHANGED <<held, hashed, threads>>
        /\ IF TxError(sender, to, amount, msg) # ""
           THEN raise(TxError(sender, to, amount, msg))
           ELSE validate(sign(Tx(sender, to, amount, msg), key, salt))

\* Chain.addBlock(timestamp) called by the caller
addBlockCall(timestamp) ==
    LET seal(sealed) ==
            /\ blocks' = sealed.blocks
            /\ txs' = sealed.txs
            /\ heap' = sealed.heap
            /\ call' = Call("addBlock", "", None, None, 0, timestamp,
                            IF sealed.err = "" THEN "ok" ELSE sealed.err)
            /\ manual' = IF sealed.err = "" THEN manual + 1 ELSE manual
    IN  /\ ncalls' = ncalls + 1
        /\ seal(addBlock(blocks, txs, heap, timestamp))
        /\ UNCHANGED <<addr, accepted, held, hashed, threads>>

\* the object has the attributes of a BlockHeader (prevhash, timestamp);
\* a Block has header, transactions, hash and hexhash only
IsHeader(obj) == "prevhash" \in DOMAIN obj

\* the property hexhash of a Block or of a BlockHeader
hexhashOf(obj) == IF IsHeader(obj) THEN hexdigest(obj.hash) ELSE obj.hexhash

\* Chain.validateBlock(block, parent_block): "True", "False", or the error
\* it raises.  It reads block.prevhash, parent_block.hexhash,
\* block.timestamp and parent_block.timestamp, in this order.
validateBlock(block, parent_block) ==
    IF ~IsHeader(block) THEN "AttributeError"
    ELSE IF ~IsHeader(parent_block) THEN "AttributeError"
    ELSE IF /\ block.prevhash = StrArg(hexhashOf(parent_block))
            /\ block.timestamp >= parent_block.timestamp
         THEN "True"
         ELSE "False"

\* the record of a call of validateBlock on blocks[block] and
\* blocks[parent], passed as Block objects or as their headers
BlockCall(form, block, parent, result) ==
    [op |-> "validateBlock", form |-> form, block |-> block,
     parent |-> parent, result |-> result]

\* Chain.validateBlock called by the caller
validateBlockCall(form, i, j) ==
    /\ ncalls' = ncalls + 1
    /\ call' = BlockCall(form, i, j,
                         IF form = "Block"
                         THEN validateBlock(blocks[i], blocks[j])
                         ELSE validateBlock(blocks[i].header, blocks[j].header))
    /\ UNCHANGED <<blocks, txs, addr, heap, accepted, manual>>
    /\ UNCHANGED <<held, hashed, threads>>

\* a Tx object a caller holds, and the last call on it with its result
Held(op, tx, result) == [op |-> op, tx |-> tx, result |-> result]

\* tx.sign(key) on the held Tx; salt is the salt PSS draws
signCall(key, salt) == held' = Held("sign", sign(held.tx, key, salt), "ok")

\* tx.isValid() on the held Tx
isValidCall ==
    held' = Held("isValid", held.tx,
                 IF isValidError(held.tx) # "" THEN isValidError(held.tx)
                 ELSE IF isValid(held.tx) THEN "True" ELSE "False")

\* tx.hash on the held Tx: self._hash.digest(), with _hash None until the
\* Tx is signed
hashCall ==
    held' = Held("hash", held.tx,
                 IF held.tx.hash = None THEN "AttributeError" ELSE "ok")

---------------------------------------------------------------------------
(* Specifications *)

\* the balances of the deep specification
DeepAddr == (A :> 2) @@ (B :> 1)

\* Spec: two signers, few inputs, enough calls for several seals
Init == ChainInit(0, DeepAddr) /\ Detached

Transact ==
    /\ ncalls < MaxCalls
    /\ \E id \in KeyIds, to \in {A, B}, now \in {0, MaxTime} :
          transact(PrivateKey(id), to, 1, 0, None, 0, now)

AddBlock ==
    /\ ncalls < MaxCalls
    /\ addBlockCall(0)

Next == Transact \/ AddBlock

Spec == Init /\ [][Next]_vars

\* the balance maps a wide chain is constructed with
WideAddrs == {NoAddr, (A :> 1) @@ (B :> 0), (A :> 2) @@ (PubA :> 1)}

\* SpecWide: every kind of input, few calls
InitWide == Detached /\ \E balances \in WideAddrs : ChainInit(0, balances)

TransactWide ==
    /\ ncalls < MaxCallsWide
    /\ \E id \in KeyIds, to \in {A, B, D}, amount \in -1..MaxAmount,
          by \in {None, B, PubA, D} :
          transact(PrivateKey(id), to, amount, 0, by, 0, 0)

AddBlockWide ==
    /\ ncalls < MaxCallsWide
    /\ \E timestamp \in -1..MaxTime : addBlockCall(timestamp)

NextWide == TransactWide \/ AddBlockWide

SpecWide == InitWide /\ [][NextWide]_vars

\* SpecBlocks: a chain sealed by hand at several timestamps, and
\* validateBlock on its blocks
InitBlocks == ChainInit(0, DeepAddr) /\ Detached

TransactBlocks ==
    /\ ncalls < MaxCallsBlocks
    /\ \E id \in KeyIds : transact(PrivateKey(id), A, 1, 0, None, 0, 0)

AddBlockBlocks ==
    /\ ncalls < MaxCallsBlocks
    /\ \E timestamp \in 0..MaxTime : addBlockCall(timestamp)

ValidateBlock ==
    /\ ncalls < MaxCallsBlocks
    /\ \E form \in {"Block", "BlockHeader"}, i \in 1..Len(blocks), j \in 1..Len(blocks) :
          validateBlockCall(form, i, j)

NextBlocks == TransactBlocks \/ AddBlockBlocks \/ ValidateBlock

SpecBlocks == InitBlocks /\ [][NextBlocks]_vars

\* the bytes of the public half of key a, given as an address
RawA == BytesValue(exportKey(publickey(PrivateKey("a"))))

\* SpecTx: one Tx object, constructed by a caller and then signed, checked
\* and hashed any number of times
InitTx ==
    /\ ChainInit(0, NoAddr)
    /\ hashed = <<>> /\ threads = <<>>
    /\ \E by \in {A, B, PubA, D, RawA}, to \in {A, B}, amount \in 0..MaxAmount :
          held = Held("Tx", Tx(by, to, amount, 0), "ok")

chain == <<blocks, txs, addr, heap, call, accepted, manual, ncalls>>

SignTx ==
    /\ \E id \in KeyIds, salt \in 0..MaxSalt : signCall(PrivateKey(id), salt)
    /\ UNCHANGED <<chain, hashed, threads>>

IsValidTx == isValidCall /\ UNCHANGED <<chain, hashed, threads>>

HashTx == hashCall /\ UNCHANGED <<chain, hashed, threads>>

NextTx == SignTx \/ IsValidTx \/ HashTx

SpecTx == InitTx /\ [][NextTx]_vars

\* the strings of at most MaxLen characters over "x", "y"
Texts ==
    {FromList(s) : s \in UNION {[1..k -> {120, 121}] : k \in 0..MaxLen}}

\* the field values HASH supports: str, int and bytes
FieldValues ==
    {StrArg(r) : r \in Texts} \cup {BytesArg(r) : r \in Texts}
       \cup {IntArg(n) : n \in 0..MaxAmount}

\* two field values, and the digests of HASH(a, b), of HASH(b, a) and of
\* HASH(a, b) computed once more
Hashed(a, b, ab, ba, again) ==
    [a |-> a, b |-> b, ab |-> ab, ba |-> ba, again |-> again]

\* SpecHash: HASH applied to two field values in both orders
InitHash ==
    /\ ChainInit(0, NoAddr)
    /\ held = <<>> /\ threads = <<>>
    /\ \E a \in FieldValues, b \in FieldValues :
          hashed = Hashed(a, b, None, None, None)

HashBoth ==
    /\ hashed.ab = None
    /\ hashed' = Hashed(hashed.a, hashed.b,
                        digest(HASH(<<hashed.a, hashed.b>>).data),
                        digest(HASH(<<hashed.b, hashed.a>>).data),
                        digest(HASH(<<hashed.a, hashed.b>>).data))
    /\ UNCHANGED <<chain, held, threads>>

NextHash == HashBoth

SpecHash == InitHash /\ [][NextHash]_vars

\* SpecThreads: NThreads threads call transact on one chain with no lock;
\* a step is one statement of transact or of addBlock
Threads == 1..NThreads

\* a thread outside transact, after a call that ended with result
Idle(result) ==
    [pc |-> "idle", tx |-> <<>>, root_hash |-> <<>>, new_block |-> <<>>,
     result |-> result]

\* a thread inside transact at the statement pc, with its local variables
\* tx, root_hash and new_block
At(pc, tx, root_hash, new_block) ==
    [pc |-> pc, tx |-> tx, root_hash |-> root_hash, new_block |-> new_block,
     result |-> ""]

InitThreads ==
    /\ ChainInit(0, DeepAddr)
    /\ held = <<>> /\ hashed = <<>>
    /\ threads = [t \in Threads |-> Idle("")]

\* by = by or key_to_public_hex(key); tx = Tx(by, to, amount, msg).sign(key)
Begin(t) ==
    /\ threads[t].pc = "idle"
    /\ ncalls < MaxCallsThreads
    /\ ncalls' = ncalls + 1
    /\ \E id \in KeyIds, to \in {A, B} :
          threads' = [threads EXCEPT ![t] =
             At("validate",
                sign(Tx(key_to_public_hex(PrivateKey(id)), to, 1, 0), PrivateKey(id), 0),
                <<>>, <<>>)]
    /\ UNCHANGED <<blocks, txs, addr, heap, call, accepted, manual, held, hashed>>

\* if not self.validateTx(tx): raise ValueError('invalid tx')
Validate(t) ==
    LET go(valid) ==
           threads' = [threads EXCEPT ![t] =
              IF valid = "True" THEN At("debit", threads[t].tx, <<>>, <<>>)
              ELSE IF valid = "False" THEN Idle("ValueError")
              ELSE Idle(valid)]
    IN  /\ threads[t].pc = "validate"
        /\ go(validateTx(addr, threads[t].tx))
        /\ UNCHANGED <<chain, held, hashed>>

\* self.addr[tx.by] -= amount
Debit(t) ==
    /\ threads[t].pc = "debit"
    /\ addr' = [addr EXCEPT ![threads[t].tx.by] = @ - threads[t].tx.amount]
    /\ threads' = [threads EXCEPT ![t].pc = "credit"]
    /\ UNCHANGED <<blocks, txs, heap, call, accepted, manual, ncalls, held, hashed>>

\* self.addr[tx.to] += amount, or self.addr[tx.to] = amount on KeyError
Credit(t) ==
    /\ threads[t].pc = "credit"
    /\ addr' = IF threads[t].tx.to \in DOMAIN addr
               THEN [addr EXCEPT ![threads[t].tx.to] = @ + threads[t].tx.amount]
               ELSE (threads[t].tx.to :> threads[t].tx.amount) @@ addr
    /\ threads' = [threads EXCEPT ![t].pc = "append"]
    /\ UNCHANGED <<blocks, txs, heap, call, accepted, manual, ncalls, held, hashed>>

\* self.txs.append(tx)
AppendTx(t) ==
    /\ threads[t].pc = "append"
    /\ heap' = [heap EXCEPT ![txs] = Append(@, threads[t].tx)]
    /\ accepted' = Append(accepted, threads[t].tx)
    /\ threads' = [threads EXCEPT ![t].pc = "check"]
    /\ UNCHANGED <<blocks, txs, addr, call, manual, ncalls, held, hashed>>

\* if len(self.txs) == self.tx_limit: self.addBlock(...)
CheckLimit(t) ==
    /\ threads[t].pc = "check"
    /\ threads' = [threads EXCEPT ![t] =
          IF TxLimitReached(Deref(heap, txs))
          THEN At("root_hash", threads[t].tx, <<>>, <<>>)
          ELSE Idle("ok")]
    /\ UNCHANGED <<chain, held, hashed>>

\* root_hash = hash_txs(*self.txs)
RootHash(t) ==
    /\ threads[t].pc = "root_hash"
    /\ threads' = [threads EXCEPT ![t] =
          IF Deref(heap, txs) = <<>> THEN Idle("TypeError")
          ELSE At("new_block", threads[t].tx, hash_txs(Deref(heap, txs)), <<>>)]
    /\ UNCHANGED <<chain, held, hashed>>

\* new_block = Block(self.last_block.hexhash, root_hash, timestamp, 0, self.txs)
NewBlock(t) ==
    /\ threads[t].pc = "new_block"
    /\ threads' = [threads EXCEPT ![t] =
          At("append_block", threads[t].tx, threads[t].root_hash,
             Block(StrArg(last_block(blocks).hexhash), threads[t].root_hash, 0, 0, txs))]
    /\ UNCHANGED <<chain, held, hashed>>

\* self.blocks.append(new_block)
AppendBlock(t) ==
    /\ threads[t].pc = "append_block"
    /\ blocks' = Append(blocks, threads[t].new_block)
    /\ threads' = [threads EXCEPT ![t].pc = "reset"]
    /\ UNCHANGED <<txs, addr, heap, call, accepted, manual, ncalls, held, hashed>>

\* self.txs = []
ResetTxs(t) ==
    /\ threads[t].pc = "reset"
    /\ heap' = Append(heap, <<>>)
    /\ txs' = Len(heap) + 1
    /\ threads' = [threads EXCEPT ![t] = Idle("ok")]
    /\ UNCHANGED <<blocks, addr, call, accepted, manual, ncalls, held, hashed>>

NextThreads ==
    \E t \in Threads :
       \/ Begin(t)
       \/ Validate(t)
       \/ Debit(t)
       \/ Credit(t)
       \/ AppendTx(t)
       \/ CheckLimit(t)
       \/ RootHash(t)
       \/ NewBlock(t)
       \/ AppendBlock(t)
       \/ ResetTxs(t)

SpecThreads == InitThreads /\ [][NextThreads]_vars

---------------------------------------------------------------------------
(* Vocabulary of the properties *)

\* the pending transactions
Pending == Deref(heap, txs)

\* this step is a call of transact
TransactStep == ncalls' = ncalls + 1 /\ call'.op = "transact"

\* this step is a call of transact that admitted a transaction
Admitted == TransactStep /\ Len(accepted') = Len(accepted) + 1

\* the transaction the last admitting step admitted
LastTx == accepted[Len(accepted)]

\* the declared sender of a call of transact: by, or the address of key
CallSender(c) ==
    IF c.by = None \/ c.by = <<>> THEN key_to_public_hex(PrivateKey(c.key)) ELSE c.by

\* balances.get(a, 0)
Get(balances, a) == IF a \in DOMAIN balances THEN balances[a] ELSE 0

\* the string x decodes to a key of the pair id
DecodesTo(x, id) == public_hex_to_key(x).ok /\ public_hex_to_key(x).key.id = id

\* the ledger (balances, pending, blocks) is as before the step
LedgerUnchanged == UNCHANGED <<addr, txs, heap, blocks>>

---------------------------------------------------------------------------
(* C1 *)

\* C1, as stated: every accepted transact, for every sender and receiver
\* (receiver == sender included), leaves balances[sender] + amount ==
\* pre_balances[sender] and balances[receiver] ==
\* pre_balances.get(receiver, 0) + amount.
C1_AsStated ==
    [][Admitted =>
         LET tx == accepted'[Len(accepted')]
         IN  /\ addr'[tx.by] + tx.amount = addr[tx.by]
             /\ addr'[tx.to] = Get(addr, tx.to) + tx.amount]_vars

\* C1, amended: an accepted transact with receiver # sender leaves
\* balances[sender] + amount == pre_balances[sender] and balances[receiver]
\* == pre_balances.get(receiver, 0) + amount (the receiver's entry is
\* created when absent); with receiver == sender the sender's balance is
\* as before the call.
C1_Transfer ==
    [][Admitted =>
         LET tx == accepted'[Len(accepted')]
         IN  IF tx.to # tx.by
             THEN /\ addr'[tx.by] + tx.amount = addr[tx.by]
                  /\ addr'[tx.to] = Get(addr, tx.to) + tx.amount
             ELSE addr'[tx.by] = addr[tx.by]]_vars

\* an accepted first call moved a positive amount to D, which had no entry
C1_Witness ==
    /\ ncalls = 1 /\ call.op = "transact" /\ call.result = "ok"
    /\ LastTx.to = D /\ LastTx.amount > 0
    /\ addr[D] = LastTx.amount

---------------------------------------------------------------------------
(* C2 *)

\* C2: a transact call whose sender is known and whose amount exceeds
\* balances[sender] fails with ValueError('invalid tx') and leaves balances,
\* pending and blocks as they were.
C2_InsufficientFunds ==
    [][(/\ TransactStep
        /\ addr # NoAddr
        /\ CallSender(call') \in DOMAIN addr
        /\ call'.amount > addr[CallSender(call')])
       => (call'.result = "ValueError" /\ LedgerUnchanged)]_vars

\* a correctly signed call for more than the sender holds was rejected
C2_Witness ==
    /\ call.op = "transact" /\ call.result = "ValueError"
    /\ addr # NoAddr
    /\ DecodesTo(CallSender(call), call.key)
    /\ CallSender(call) \in DOMAIN addr
    /\ call.amount > addr[CallSender(call)]

---------------------------------------------------------------------------
(* C3 *)

\* C3: from a ledger constructed with non-negative balances, every balance
\* is >= 0 after any sequence of transact and addBlock calls.
C3_NonNegative ==
    addr # NoAddr => \A a \in DOMAIN addr : addr[a] >= 0

\* an accepted transfer spent the whole balance of its sender
C3_Witness ==
    /\ call.op = "transact" /\ call.result = "ok"
    /\ LastTx.amount > 0 /\ LastTx.to # LastTx.by
    /\ addr[LastTx.by] = 0

---------------------------------------------------------------------------
(* C9 *)

\* C9, as stated: transact(key, ..., by=X) with X not the address of key
\* (X # key_to_public_hex(key)) is rejected and leaves balances, pending
\* and blocks unchanged.
C9_AsStated ==
    [][(TransactStep /\ CallSender(call') # key_to_public_hex(PrivateKey(call'.key)))
       => (call'.result # "ok" /\ LedgerUnchanged)]_vars

\* C9, amended: transact(key, ..., by=X) with X a string that does not
\* decode (bytes.fromhex, RSA.importKey) to a key of key's own pair is
\* rejected and leaves balances, pending and blocks unchanged, and no step
\* lowers the balance of an address unless it is a transact signed with the
\* key that address decodes to.
C9_Authentic ==
    [][/\ (TransactStep /\ ~DecodesTo(CallSender(call'), call'.key))
          => (call'.result # "ok" /\ LedgerUnchanged)
       /\ addr # NoAddr =>
            \A x \in DOMAIN addr :
               addr'[x] < addr[x] => (TransactStep /\ DecodesTo(x, call'.key))]_vars

\* key a's call in the name of B, which holds enough, was rejected
C9_Witness ==
    /\ call.op = "transact" /\ call.key = "a" /\ call.by = B
    /\ call.result = "ValueError"
    /\ addr # NoAddr /\ B \in DOMAIN addr /\ addr[B] >= call.amount
    /\ call.amount >= 0

---------------------------------------------------------------------------
(* C10 *)

\* C10: a correctly signed transact whose sender has no entry in balances
\* fails with the error used for insufficient funds, ValueError('invalid
\* tx'), and leaves balances, pending and blocks unchanged.
C10_UnknownSender ==
    [][(/\ TransactStep
        /\ call'.amount >= 0
        /\ addr # NoAddr
        /\ DecodesTo(CallSender(call'), call'.key)
        /\ CallSender(call') \notin DOMAIN addr)
       => (call'.result = "ValueError" /\ LedgerUnchanged)]_vars

---------------------------------------------------------------------------
(* C4 *)

\* the header hash of a block, in the hexadecimal form Block.hexhash keeps,
\* computed from the fields of its header
HeaderHexHash(b) ==
    hexdigest(HASH(<<b.header.prevhash, b.header.roothash,
                     IntArg(b.header.timestamp), IntArg(b.header.nouce)>>).data)

\* C4: in every reachable state blocks[i+1].header.prevhash is the header
\* hash of blocks[i] for every adjacent pair, and blocks[0] is the genesis
\* block with prevhash 0 and an empty transaction list.
C4_ChainLink ==
    /\ \A i \in 1..(Len(blocks) - 1) :
          /\ blocks[i + 1].header.prevhash = StrArg(blocks[i].hexhash)
          /\ blocks[i + 1].header.prevhash = StrArg(HeaderHexHash(blocks[i]))
    /\ blocks[1].header.prevhash = IntArg(0)
    /\ Deref(heap, blocks[1].transactions) = <<>>

\* the chain holds genesis and two sealed blocks
C4_Witness ==
    /\ Len(blocks) = 3
    /\ blocks[3].header.prevhash = StrArg(blocks[2].hexhash)
    /\ blocks[2].hexhash # blocks[1].hexhash

---------------------------------------------------------------------------
(* C5 *)

\* C5: the accepted transact that brings len(pending) to tx_limit appends
\* exactly one block and leaves pending empty; every other accepted
\* transact leaves blocks unchanged and grows pending by one; a rejected
\* transact leaves blocks and pending unchanged.  Hence, as long as the
\* caller has not sealed by hand, after k accepted calls len(blocks) ==
\* 1 + k div tx_limit and len(pending) == k mod tx_limit.
C5_SealTrigger ==
    [][/\ Admitted =>
            IF Len(Pending) + 1 = tx_limit
            THEN /\ Len(blocks') = Len(blocks) + 1
                 /\ SubSeq(blocks', 1, Len(blocks)) = blocks
                 /\ Pending' = <<>>
            ELSE /\ blocks' = blocks
                 /\ Len(Pending') = Len(Pending) + 1
       /\ (TransactStep /\ ~Admitted) => (blocks' = blocks /\ Pending' = Pending)
       /\ manual' = 0 =>
            /\ Len(blocks') = 1 + (Len(accepted') \div tx_limit)
            /\ Len(Pending') = Len(accepted') % tx_limit]_vars

\* without a seal by hand, one more than tx_limit transactions were
\* accepted: one block was sealed and one transaction is pending
C5_Witness ==
    /\ manual = 0
    /\ Len(accepted) = tx_limit + 1
    /\ Len(blocks) = 2
    /\ Len(Pending) = 1

---------------------------------------------------------------------------
(* C6 *)

\* the transaction lists of blocks[1..n], concatenated
RECURSIVE BlockTxs(_)
BlockTxs(n) ==
    IF n = 0 THEN <<>> ELSE BlockTxs(n - 1) \o Deref(heap, blocks[n].transactions)

\* C6: in every reachable state the transaction lists of the blocks, in
\* order, followed by pending are the accepted transactions in admission
\* order: none lost at a seal, none in two blocks or in a block and pending.
C6_Ledger == BlockTxs(Len(blocks)) \o Pending = accepted

\* two blocks were sealed and a later transaction is pending
C6_Witness ==
    /\ Len(blocks) = 3
    /\ Pending # <<>>
    /\ Len(accepted) = Len(Deref(heap, blocks[2].transactions))
                         + Len(Deref(heap, blocks[3].transactions)) + Len(Pending)

---------------------------------------------------------------------------
(* C7 *)

\* C7: over every transact or addBlock step the blocks sequence before is
\* a prefix of the one after, and no block already sealed changes its
\* header or the transaction list it holds.
C7_AppendOnly ==
    [][/\ Len(blocks') >= Len(blocks)
       /\ \A i \in 1..Len(blocks) :
             /\ blocks'[i] = blocks[i]
             /\ Deref(heap', blocks'[i].transactions)
                  = Deref(heap, blocks[i].transactions)]_vars

\* a transaction was admitted after a block was sealed, and that block
\* still holds the transactions it was sealed with
C7_Witness ==
    /\ Len(blocks) >= 2
    /\ call.op = "transact" /\ call.result = "ok"
    /\ Pending # <<>>
    /\ Deref(heap, blocks[2].transactions) # <<>>
    /\ LastTx = Pending[Len(Pending)]

---------------------------------------------------------------------------
(* C8 *)

\* the id-hash of a transaction, from its five fields
IdHash(tx) ==
    digest(HASH(<<StrArg(tx.by), StrArg(tx.to), IntArg(tx.amount),
                  BytesArg(tx.signature), IntArg(tx.msg)>>).data)

\* hash(hash(...hash(h0, h1)...), hn) over the id-hashes of ts
RECURSIVE LeftFold(_)
LeftFold(ts) ==
    IF Len(ts) = 1 THEN BytesArg(IdHash(ts[1]))
    ELSE StrArg(tree_hash(LeftFold(SubSeq(ts, 1, Len(ts) - 1)),
                          BytesArg(IdHash(ts[Len(ts)]))))

\* the pending transactions a sealing step seals
PendingAtSeal ==
    IF Admitted THEN Append(Pending, accepted'[Len(accepted')]) ELSE Pending

\* C8: when a block is sealed its transaction list is the pending sequence
\* in admission order and its header roothash is the pairwise left fold of
\* those transactions' id-hashes in that order.
C8_RootHash ==
    [][Len(blocks') = Len(blocks) + 1 =>
         LET b == blocks'[Len(blocks')]
         IN  /\ Deref(heap', b.transactions) = PendingAtSeal
             /\ b.header.roothash = LeftFold(PendingAtSeal)]_vars

\* the last block was sealed by transact with tx_limit transactions, at
\* least three
C8_Witness ==
    /\ Len(blocks) >= 2
    /\ call.op = "transact" /\ call.result = "ok" /\ Pending = <<>>
    /\ Len(Deref(heap, last_block(blocks).transactions)) = tx_limit
    /\ tx_limit >= 3
    /\ last_block(blocks).header.roothash
         = LeftFold(Deref(heap, last_block(blocks).transactions))

---------------------------------------------------------------------------
(* C11 *)

\* C11: Chain.isValid() is true iff the chain was constructed with a
\* balance map and no step changes its value; on a chain constructed
\* without one every transact (of a non-negative amount, so that the
\* transaction can be constructed) is rejected with one error of its own,
\* the TypeError of subscripting None, never the ValueError('invalid tx')
\* of an invalid transaction, and balances, pending and blocks stay as
\* constructed.
C11_Uninitialized ==
    [][/\ ChainIsValid' = ChainIsValid
       /\ (TransactStep /\ ~ChainIsValid /\ call'.amount >= 0)
            => (call'.result = "TypeError" /\ LedgerUnchanged)]_vars

---------------------------------------------------------------------------
(* C12 *)

\* this step is a call of validateBlock on two Block objects
ValidateBlockStep ==
    ncalls' = ncalls + 1 /\ call'.op = "validateBlock" /\ call'.form = "Block"

\* C12: validateBlock(block, parent_block) on any two Block objects raises
\* no error, returns True iff block.header.prevhash is the header hash of
\* parent_block and block.header.timestamp >= parent_block.header.timestamp
\* and False otherwise, and changes nothing of the chain.
C12_ValidateBlock ==
    [][ValidateBlockStep =>
         LET block == blocks[call'.block]
             parent == blocks[call'.parent]
             linked == /\ block.header.prevhash = StrArg(HeaderHexHash(parent))
                       /\ block.header.timestamp >= parent.header.timestamp
         IN  /\ call'.result = (IF linked THEN "True" ELSE "False")
             /\ LedgerUnchanged]_vars

---------------------------------------------------------------------------
(* C13 *)

\* C13: Tx(by, to, amount) with a negative amount raises the error of a
\* negative integer (OverflowError, from int.to_bytes in HASH), so a
\* transact with a negative amount is rejected with that error before any
\* change: balances, pending and blocks are as before and no transaction is
\* admitted.
C13_NegativeAmount ==
    [][(TransactStep /\ call'.amount < 0)
       => /\ TxError(CallSender(call'), call'.to, call'.amount, 0) = "OverflowError"
          /\ call'.result = "OverflowError"
          /\ LedgerUnchanged
          /\ accepted' = accepted]_vars

\* a correctly signed call of a negative amount was rejected although its
\* sender and its receiver both hold a balance the amount could have moved
C13_Witness ==
    /\ call.op = "transact" /\ call.amount < 0
    /\ call.result = "OverflowError"
    /\ addr # NoAddr
    /\ DecodesTo(CallSender(call), call.key)
    /\ CallSender(call) \in DOMAIN addr
    /\ call.to \in DOMAIN addr /\ call.to # CallSender(call)
    /\ addr[call.to] >= -call.amount

---------------------------------------------------------------------------
(* C14 *)

\* C14: the id-hash of a Tx is undefined until it is signed (tx.hash
\* raises), and once the Tx is signed no call changes its content hash, its
\* signature or its id-hash: a second sign fails or changes nothing.
C14_SignedOnce ==
    [][/\ (~isSigned(held.tx) /\ held'.op = "hash") => held'.result # "ok"
       /\ isSigned(held.tx) =>
            /\ held'.tx.prehash = held.tx.prehash
            /\ held'.tx.signature = held.tx.signature
            /\ held'.tx.hash = held.tx.hash]_vars

---------------------------------------------------------------------------
(* C18 *)

\* C18: tx.isValid() never raises, whatever value the Tx holds as its
\* sender: it returns False for an unsigned Tx and whenever decoding the
\* sender's key or verifying the signature raises, and it returns True
\* only if the signature verifies against the content hash under the key
\* the sender decodes to.
C18_FailsClosed ==
    [][held'.op = "isValid" =>
         /\ held'.result \in {"True", "False"}
         /\ ~isSigned(held.tx) => held'.result = "False"
         /\ held'.result = "True" =>
               \E id \in KeyIds :
                  /\ DecodesTo(held.tx.by, id)
                  /\ PssVerify(PrivateKey(id), held.tx.prehash, held.tx.signature)]_vars

---------------------------------------------------------------------------
(* C15 *)

\* C15: in every state between two calls, under any sequence of transact
\* and addBlock calls, 0 <= len(pending) <= tx_limit - 1: the chain never
\* holds tx_limit or more unsealed transactions.
C15_PendingBound ==
    /\ Len(Pending) >= 0
    /\ Len(Pending) <= tx_limit - 1

\* after a seal, pending is one short of the limit again
C15_Witness ==
    /\ Len(blocks) >= 2
    /\ Len(Pending) = tx_limit - 1
    /\ call.op = "transact" /\ call.result = "ok"

---------------------------------------------------------------------------
(* C16 *)

\* C16: addBlock with no pending transaction fails with the error of the
\* empty batch (TypeError: reduce() of empty sequence) and leaves blocks and
\* pending as they were; no block other than genesis ever holds an empty
\* transaction list; and transact never seals an empty pending list.
C16_EmptyBatch ==
    [][/\ (ncalls' = ncalls + 1 /\ call'.op = "addBlock" /\ Pending = <<>>)
            => /\ call'.result = "TypeError"
               /\ blocks' = blocks
               /\ txs' = txs /\ heap' = heap
       /\ \A i \in 2..Len(blocks') :
             Deref(heap', blocks'[i].transactions) # <<>>
       /\ (TransactStep /\ Len(blocks') > Len(blocks)) => PendingAtSeal # <<>>]_vars

\* after a block was sealed, addBlock was called on the empty pending list
\* and failed
C16_Witness ==
    /\ Len(blocks) >= 2
    /\ call.op = "addBlock" /\ call.result = "TypeError"
    /\ Pending = <<>>
    /\ Deref(heap, last_block(blocks).transactions) # <<>>

---------------------------------------------------------------------------
(* C17 *)

\* C17: for all field values a and b that HASH supports (str, int, bytes)
\* with a # b, the digest of HASH(a, b) differs from the digest of
\* HASH(b, a); and HASH of the same field tuple gives the same digest
\* again.
C17_OrderSensitive ==
    hashed.ab # None =>
       /\ hashed.a # hashed.b => hashed.ab # hashed.ba
       /\ hashed.again = hashed.ab

---------------------------------------------------------------------------
(* C20 *)

\* the sum of balances[a] over the addresses a of S
RECURSIVE SumOver(_, _)
SumOver(balances, S) ==
    IF S = {} THEN 0
    ELSE LET a == CHOOSE x \in S : TRUE
         IN  balances[a] + SumOver(balances, S \ {a})

\* the sum of all balances (0 for a chain constructed without balances)
TotalSupply(balances) ==
    IF balances = NoAddr THEN 0 ELSE SumOver(balances, DOMAIN balances)

\* C20: the sum of all balances is the same after every step as before it,
\* hence the same in every reachable state as in the initial balance map:
\* across every accepted or rejected transact (self-transfers, zero amounts
\* and transfers creating the receiver's entry included) and every
\* addBlock.
C20_Conserved ==
    [][TotalSupply(addr') = TotalSupply(addr)]_vars

\* a transfer that created the receiver's entry and then a self-transfer,
\* both of a positive amount, were accepted and the supply is what the
\* chain was constructed with
C20_Witness ==
    /\ Len(accepted) = 2
    /\ accepted[1].to \notin {A, B, PubA} /\ accepted[1].amount > 0
    /\ accepted[2].to = accepted[2].by /\ accepted[2].amount > 0
    /\ \E balances \in WideAddrs :
          /\ DOMAIN balances \subseteq DOMAIN addr
          /\ accepted[1].to \notin DOMAIN balances
          /\ TotalSupply(addr) = TotalSupply(balances)

---------------------------------------------------------------------------
(* C19 *)

\* no balance is negative
NoOverdraft == \A a \in DOMAIN addr : addr[a] >= 0

\* pending holds no more than tx_limit transactions
NoOverflow == Len(Pending) <= tx_limit

\* every sealed block holds the tx_limit transactions its root hash was
\* computed from
NoHalfSealed ==
    \A i \in 2..Len(blocks) :
       /\ Len(Deref(heap, blocks[i].transactions)) = tx_limit
       /\ blocks[i].header.roothash = hash_txs(Deref(heap, blocks[i].transactions))

\* C19: when two callers run transact concurrently, with its statements
\* (validate, debit, credit, append, length test, seal) interleaved, no
\* interleaving lets both pass the balance check against the same balance
\* and drive a balance negative, none lets pending grow past tx_limit
\* without a seal, and none admits a transaction into a batch that is being
\* sealed.
C19_Atomic == NoOverdraft /\ NoOverflow /\ NoHalfSealed
====
